---- MODULE Spec2Model ----
(***************************************************************************)
(* Model of the meeting-intelligence pipeline of src/main.py: the "Process *)
(* Audio" handler of main() (transcribe -> diarize -> analyze -> assemble) *)
(* together with the three stage wrappers it calls.  Every blocking call   *)
(* to a hosted provider is split into the step that issues the request and *)
(* the step that receives the response, so that the order of the calls is  *)
(* observable.                                                             *)
(***************************************************************************)
EXTENDS Integers, Sequences, FiniteSets, TLC

VARIABLES
    openai_key,               \* OPENAI_API_KEY is set (and non-empty) in os.environ
    assemblyai_key,           \* ASSEMBLYAI_KEY is set (and non-empty) in os.environ
    uploaded_file,            \* the file_uploader widget: NoFile or an uploaded file
    use_speaker_diarization,  \* checkbox value read by the running handler
    use_advanced_analysis,    \* checkbox value read by the running handler
    pc,                       \* stage of the pipeline run
    fs,                       \* temporary files that exist on local storage
    temp_path,                \* main(): temp_path
    whisper_result,           \* main(): whisper_result
    speaker_result,           \* main(): speaker_result
    final_transcription,      \* main(): final_transcription
    speaker_segments,         \* main(): speaker_segments
    ai_result,                \* main(): ai_result
    ai_args,                  \* arguments analyze_with_ai was called with
    chat_response,            \* analyze_with_ai(): what the chat call answered
    events,                   \* calls, requests and responses of the current run
    notices,                  \* st.error / st.warning / st.success shown by the run
    session_state,            \* st.session_state: <<>> or <<new_analysis>>
    page,                     \* what the last script run rendered below the sidebar
    previous_path,            \* temp_path of the run that ended last, while idle
    corpus,                   \* demo_app.py: the analysis_*.json files, parsed
    demo_page                 \* demo_app.py: what the script rendered

vars == <<openai_key, assemblyai_key, uploaded_file, use_speaker_diarization,
          use_advanced_analysis, pc, fs, temp_path, whisper_result,
          speaker_result, final_transcription, speaker_segments, ai_result,
          ai_args, chat_response, events, notices, session_state, page,
          previous_path, corpus, demo_page>>

\* the state of the demo dashboard, a separate script
demo_vars == <<corpus, demo_page>>

----------------------------------------------------------------------------
(* Bounds and input domains                                                *)

MaxUtterances == 2

MaxDemoFiles == 3

NoFile == [name |-> "", size |-> 0]

Files == { [name |-> "meeting.mp3", size |-> 2048],
           [name |-> "call.wav",    size |-> 4096] }

Paths == { "/tmp/tmpa.audio", "/tmp/tmpb.audio" }

Unset == [unset |-> TRUE]

TextIT == "questo progetto e per una nuova linea"
TextEN == "the roadmap stays on track"

\* What the transcription provider can answer: an exception (transport, auth,
\* provider error) or a verbose_json response; the attributes language and
\* duration may be missing from the response object.
WhisperResponses ==
    { [raises |-> TRUE],
      [raises |-> FALSE, text |-> TextIT, language |-> "it", duration |-> 30],
      [raises |-> FALSE, text |-> TextEN, language |-> "en", duration |-> 30],
      [raises |-> FALSE, text |-> TextIT] }

Utterances ==
    { [speaker |-> "A", start |-> 0,    end |-> 1500, confidence |-> 95],
      [speaker |-> "B", start |-> 1500, end |-> 4200] }

UtteranceSeqs ==
    UNION { [1..n -> Utterances] : n \in 0..MaxUtterances }

\* What the diarization provider can answer: an exception, a transcript in
\* error status, a transcript without utterances attribute, or utterances.
DiarizationResponses ==
    { [raises |-> TRUE], [raises |-> FALSE, status |-> "error"],
      [raises |-> FALSE, status |-> "completed"] }
    \cup { [raises |-> FALSE, status |-> "completed", utterances |-> u] :
             u \in UtteranceSeqs }

MandatoryCategories ==
    { "strategic_insights", "innovation_opportunities", "recurring_themes",
      "decisions_made", "weak_signals" }

ContentFull    == "{\"strategic_insights\": [{\"insight\": \"x\"}], \"innovation_opportunities\": [], \"recurring_themes\": [], \"decisions_made\": [], \"weak_signals\": []}"
ContentPartial == "{\"strategic_insights\": [{\"insight\": \"x\"}]}"
ContentEmpty   == "{}"
ContentNumber  == "42"
ContentProse   == "Ecco l'analisi strategica richiesta: ..."
ContentCut     == "{\"strategic_insights\": [{\"insight\": "

Contents ==
    { ContentFull, ContentPartial, ContentEmpty, ContentNumber, ContentProse,
      ContentCut }

\* What the chat-completion provider can answer: an exception (transport,
\* auth), a message without content, or a message with text content.
ChatResponses ==
    { [raises |-> TRUE], [raises |-> FALSE] }
    \cup { [raises |-> FALSE, content |-> c] : c \in Contents }

----------------------------------------------------------------------------
(* Python helpers                                                          *)

\* dict.get(key, default)
Get(d, key, default) == IF key \in DOMAIN d THEN d[key] ELSE default

Count(s, e) == Cardinality({ i \in DOMAIN s : s[i] = e })

\* a conversion that drops the fraction of a second
Seconds_truncated(ms) == [s |-> ms \div 1000, thousandths |-> 0]

\* utterance.start / 1000: milliseconds to seconds, kept as the whole seconds
\* and the remaining thousandths
Seconds(ms) == [s |-> ms \div 1000, thousandths |-> ms % 1000]

----------------------------------------------------------------------------
(* Stage wrappers                                                          *)

\* a status that does not depend on the OpenAI key
init_apis_ignored == TRUE

\* init_apis(): the status it returns
init_apis == openai_key

\* transcribe_with_whisper(audio_file_path); exists: the path can be opened
transcribe_with_whisper(key, exists, resp) ==
    IF ~key THEN [success |-> FALSE, error |-> "OpenAI API key not found"]
    ELSE IF ~exists THEN [success |-> FALSE, error |-> "FileNotFoundError"]
    ELSE IF resp.raises THEN [success |-> FALSE, error |-> "provider error"]
    ELSE [text     |-> resp.text,
          language |-> Get(resp, "language", "unknown"),
          duration |-> Get(resp, "duration", 0),
          success  |-> TRUE]

\* the request of transcribe_with_whisper reaches the provider
WhisperRequested(key, exists) == key /\ exists

speaker_segment(utterance) ==
    [speaker    |-> utterance.speaker,
     start      |-> Seconds(utterance.start),
     end        |-> Seconds(utterance.end),
     confidence |-> Get(utterance, "confidence", 90)]

\* get_speaker_timestamps_only that counts the segments, not the labels
get_speaker_timestamps_only_counted(key, exists, resp) ==
    IF ~key THEN [success |-> FALSE, error |-> "AssemblyAI key not found"]
    ELSE IF ~exists \/ resp.raises
         THEN [success |-> FALSE, error |-> "AssemblyAI error"]
    ELSE IF resp.status = "error"
         THEN [success |-> FALSE, error |-> "transcript.error"]
    ELSE LET utterances == Get(resp, "utterances", <<>>)
             segs == [i \in DOMAIN utterances |-> speaker_segment(utterances[i])]
         IN  [speaker_segments |-> segs,
              total_speakers   |-> Len(segs),
              success          |-> TRUE]

\* get_speaker_timestamps_only(audio_file_path)
get_speaker_timestamps_only(key, exists, resp) ==
    IF ~key THEN [success |-> FALSE, error |-> "AssemblyAI key not found"]
    ELSE IF ~exists \/ resp.raises
         THEN [success |-> FALSE, error |-> "AssemblyAI error"]
    ELSE IF resp.status = "error"
         THEN [success |-> FALSE, error |-> "transcript.error"]
    ELSE LET utterances == Get(resp, "utterances", <<>>)
             segs == [i \in DOMAIN utterances |-> speaker_segment(utterances[i])]
         IN  [speaker_segments |-> segs,
              total_speakers   |-> Cardinality({ segs[i].speaker : i \in DOMAIN segs }),
              success          |-> TRUE]

\* a request sent to the diarization provider without a key
DiarizationRequested_always(key, exists) == TRUE

\* the request of get_speaker_timestamps_only reaches the provider
DiarizationRequested(key, exists) == key

\* a merge that rewrites the text with the speaker labels of the segments
combine_transcription_with_speakers_merged(w, s) ==
    IF ~Get(s, "success", FALSE) \/ Get(s, "speaker_segments", <<>>) = <<>>
    THEN <<w.text, <<>>>>
    ELSE <<s.speaker_segments[1].speaker \o ": " \o w.text, s.speaker_segments>>

\* combine_transcription_with_speakers(whisper_result, speaker_result):
\* the pair (text, segments) it returns
combine_transcription_with_speakers(w, s) ==
    IF ~Get(s, "success", FALSE) \/ Get(s, "speaker_segments", <<>>) = <<>>
    THEN <<w.text, <<>>>>
    ELSE <<w.text, s.speaker_segments>>

JSONDecodeError == [raised |-> "JSONDecodeError"]

\* a dict with string keys; Object(<<>>) is the empty dict {}
Object(members) == [type |-> "object", members |-> members]

\* json.loads on the contents the model draws
json_loads(content) ==
    CASE content = ContentFull ->
             Object([strategic_insights       |-> << [insight |-> "x"] >>,
                     innovation_opportunities |-> <<>>,
                     recurring_themes         |-> <<>>,
                     decisions_made           |-> <<>>,
                     weak_signals             |-> <<>>])
      [] content = ContentPartial ->
             Object([strategic_insights |-> << [insight |-> "x"] >>])
      [] content = ContentEmpty -> Object(<<>>)
      [] content = ContentNumber -> [type |-> "number", value |-> 42]
      [] OTHER -> JSONDecodeError

\* the hard-coded fallback of analyze_with_ai; every item is abbreviated to
\* its first field
fallback_analysis(detected_language) ==
    IF detected_language = "it"
    THEN Object(
          [strategic_insights |->
               << [insight |-> "Il meeting rivela dinamiche decisionali interessanti"],
                  [insight |-> "Emergono segnali di potenziali innovazioni di prodotto/servizio"] >>,
           innovation_opportunities |->
               << [opportunita |-> "Sviluppo di nuove funzionalita basate su feedback"] >>,
           recurring_themes |-> << [tema |-> "Efficienza operativa e ottimizzazione processi"] >>,
           decisions_made   |-> << [decisione |-> "Procedere con analisi approfondita delle opportunita discusse"] >>,
           weak_signals     |-> << [segnale |-> "Potenziali cambiamenti nelle dinamiche di mercato"] >>,
           team_dynamics    |-> << [dinamica |-> "Collaborazione attiva"] >>,
           competitive_intelligence |->
               << [insight_competitivo |-> "Opportunita di differenziazione emerse dalla discussione"] >>])
    ELSE Object(
          [strategic_insights |->
               << [insight |-> "Meeting reveals interesting decision-making dynamics"] >>,
           innovation_opportunities |->
               << [opportunita |-> "Development of new features based on feedback"] >>,
           recurring_themes |-> << [tema |-> "Operational efficiency and process optimization"] >>,
           decisions_made   |-> << [decisione |-> "Proceed with in-depth analysis of discussed opportunities"] >>,
           weak_signals     |-> << [segnale |-> "Potential market dynamics changes"] >>,
           team_dynamics    |-> << [dinamica |-> "Active collaboration"] >>,
           competitive_intelligence |->
               << [insight_competitivo |-> "Differentiation opportunities emerged from discussion"] >>])

\* str.lower() of one character
LowerChar(c) ==
    CASE c = "A" -> "a" [] c = "B" -> "b" [] c = "C" -> "c" [] c = "D" -> "d"
      [] c = "E" -> "e" [] c = "F" -> "f" [] c = "G" -> "g" [] c = "H" -> "h"
      [] c = "I" -> "i" [] c = "J" -> "j" [] c = "K" -> "k" [] c = "L" -> "l"
      [] c = "M" -> "m" [] c = "N" -> "n" [] c = "O" -> "o" [] c = "P" -> "p"
      [] c = "Q" -> "q" [] c = "R" -> "r" [] c = "S" -> "s" [] c = "T" -> "t"
      [] c = "U" -> "u" [] c = "V" -> "v" [] c = "W" -> "w" [] c = "X" -> "x"
      [] c = "Y" -> "y" [] c = "Z" -> "z" [] OTHER -> c

\* str.lower()
RECURSIVE Lower(_)
Lower(text) ==
    IF Len(text) = 0 THEN ""
    ELSE LowerChar(SubSeq(text, 1, 1)) \o Lower(SubSeq(text, 2, Len(text)))

\* word in text: the substring test of Python
Contains(text, word) ==
    \E i \in 1..(Len(text) - Len(word) + 1) :
        SubSeq(text, i, i + Len(word) - 1) = word

ItalianWords == {"questo", "che", "per", "una", "con", "sono", "della", "anche"}

\* the prompt pair analyze_with_ai selects: the Italian one when the
\* detected language is 'it' or the lowered transcript contains one of the
\* Italian function words, the English one otherwise
prompt_locale(transcription_text, detected_language) ==
    IF \/ detected_language = "it"
       \/ \E word \in ItalianWords : Contains(Lower(transcription_text), word)
    THEN "it" ELSE "en"

\* analyze_with_ai that reports the substituted fallback as a failed stage
analyze_with_ai_flagged(key, transcription_text, detected_language, resp) ==
    IF ~key THEN [success |-> FALSE, error |-> "OpenAI API key not found"]
    ELSE IF resp.raises THEN [success |-> FALSE, error |-> "provider error"]
    ELSE IF "content" \notin DOMAIN resp
         THEN [success |-> FALSE, error |-> "TypeError"]
    ELSE LET analysis == json_loads(resp.content)
         IN  IF analysis = JSONDecodeError
             THEN [success |-> FALSE, analysis |-> fallback_analysis(detected_language)]
             ELSE [success |-> TRUE, analysis |-> analysis]

\* analyze_with_ai that hands the unparseable content on instead of the fallback
analyze_with_ai_raw(key, transcription_text, detected_language, resp) ==
    IF ~key THEN [success |-> FALSE, error |-> "OpenAI API key not found"]
    ELSE IF resp.raises THEN [success |-> FALSE, error |-> "provider error"]
    ELSE IF "content" \notin DOMAIN resp
         THEN [success |-> FALSE, error |-> "TypeError"]
    ELSE LET analysis == json_loads(resp.content)
         IN  IF analysis = JSONDecodeError
             THEN [success |-> TRUE,
                   analysis |-> [type |-> "string", value |-> resp.content]]
             ELSE [success |-> TRUE, analysis |-> analysis]

\* analyze_with_ai(transcription_text, detected_language)
analyze_with_ai(key, transcription_text, detected_language, resp) ==
    IF ~key THEN [success |-> FALSE, error |-> "OpenAI API key not found"]
    ELSE IF resp.raises THEN [success |-> FALSE, error |-> "provider error"]
    ELSE IF "content" \notin DOMAIN resp
         THEN [success |-> FALSE, error |-> "TypeError"]
    ELSE LET analysis == json_loads(resp.content)
         IN  IF analysis = JSONDecodeError
             THEN [success |-> TRUE, analysis |-> fallback_analysis(detected_language)]
             ELSE [success |-> TRUE, analysis |-> analysis]

ChatRequested(key) == key

----------------------------------------------------------------------------
(* The results page of main.py                                             *)

\* nothing rendered below the sidebar (st.stop(), return, a run in progress)
Blank == [kind |-> "blank"]

Min(a, b) == IF a < b THEN a ELSE b

\* the tabs of display_analysis_results, with the field each tab prints as
\* the headline of an item
Tabs ==
    [strategic_insights       |-> "insight",
     innovation_opportunities |-> "opportunita",
     recurring_themes         |-> "tema",
     decisions_made           |-> "decisione",
     weak_signals             |-> "segnale",
     team_dynamics            |-> "dinamica",
     competitive_intelligence |-> "insight_competitivo"]

\* Python truthiness of a stored ai_analysis
Truthy(analysis) ==
    IF analysis.type = "object" THEN DOMAIN analysis.members # {}
    ELSE analysis.value # 0

\* the headlines one tab shows: item.get(field, 'N/A') for each item under
\* the tab's key, nothing when the key is absent
TabItems(members, key, field) ==
    IF key \in DOMAIN members
    THEN [i \in DOMAIN members[key] |-> Get(members[key][i], field, "N/A")]
    ELSE <<>>

\* display_analysis_results(analysis): what it renders, or the exception it
\* ends with ('strategic_insights' in <a number> is a TypeError)
display_analysis_results(analysis) ==
    LET status ==
            [kind     |-> "results",
             file     |-> analysis.filename,
             language |-> analysis.transcription.language,
             speakers |-> analysis.speaker_count,
             speaker_status |->
                 IF analysis.speaker_analysis_success /\ analysis.speaker_count > 0
                 THEN "speakers detected" ELSE "single speaker or skipped",
             ai_status |->
                 IF analysis.ai_analysis_success
                 THEN "AI analysis completed" ELSE "AI analysis failed",
             transcription |-> analysis.transcription.text,
             timeline |->
                 [i \in 1..Min(20, Len(analysis.speakers)) |->
                      analysis.speakers[i].speaker]]
    IN  IF ~Truthy(analysis.ai_analysis)
        THEN status
        ELSE IF analysis.ai_analysis.type # "object"
        THEN [kind |-> "exception", raised |-> "TypeError"]
        ELSE [f \in DOMAIN status \cup {"title_suffix", "tabs"} |->
                 IF f = "title_suffix"
                 THEN (IF analysis.transcription.language = "it"
                       THEN "in Italiano" ELSE "in English")
                 ELSE IF f = "tabs"
                 THEN [key \in DOMAIN Tabs |->
                          TabItems(analysis.ai_analysis.members, key, Tabs[key])]
                 ELSE status[f]]

\* the end of main(): the stored record, or the welcome message
Render(state) ==
    IF state = <<>> THEN [kind |-> "welcome"]
    ELSE display_analysis_results(state[1])

----------------------------------------------------------------------------
(* The "Process Audio" handler of main()                                   *)

\* os.unlink that leaves the file in place
Unlink_noop(files, path) == files

\* os.unlink(path)
Unlink(files, path) == files \ {path}

\* the provider has a request of the current run that is not yet answered
InFlight(provider) ==
    Count(events, provider \o ".request") > Count(events, provider \o ".response")

Providers == {"whisper", "assemblyai", "chat"}

\* the response event of a provider, if a request of it is in flight
Response(provider) ==
    IF InFlight(provider) THEN << provider \o ".response" >> ELSE <<>>

\* diarization started whatever the checkbox says
StageAfterTranscribe_always(diarize) == "Diarizing"

\* the stage main() goes to after a successful transcription
StageAfterTranscribe(diarize) == IF diarize THEN "Diarizing" ELSE "Analyzing"

\* a failed diarization ends the run
StageAfterDiarize_abort(result) ==
    IF result.success THEN "Analyzing" ELSE "Failed"

\* the stage main() goes to after get_speaker_timestamps_only has returned
StageAfterDiarize(result) == "Analyzing"

\* a failed analysis ends the run
StageAfterAnalyze_abort(result) ==
    IF result.success THEN "Assembling" ELSE "Failed"

\* a failed analysis is tried again
StageAfterAnalyze_retry(result) ==
    IF result.success THEN "Assembling" ELSE "Analyzing"

\* the stage main() goes to after step 3
StageAfterAnalyze(result) == "Assembling"

\* diarization and analysis dispatched together
CallsOnEntry_parallel(stage) ==
    CASE stage = "Transcribing" ->
             << "transcribe_with_whisper", "whisper.request" >>
      [] stage = "Diarizing" ->
             << "get_speaker_timestamps_only", "assemblyai.request" >>
               \o (IF use_advanced_analysis
                   THEN << "analyze_with_ai", "chat.request" >> ELSE <<>>)
      [] OTHER -> <<>>

\* the stage wrapper main() calls on entering a stage, up to the request the
\* wrapper sends to its provider
CallsOnEntry(stage) ==
    CASE stage = "Transcribing" ->
             << "transcribe_with_whisper" >>
               \o (IF WhisperRequested(openai_key, TRUE)
                   THEN << "whisper.request" >> ELSE <<>>)
      [] stage = "Diarizing" ->
             << "get_speaker_timestamps_only" >>
               \o (IF DiarizationRequested(assemblyai_key, temp_path \in fs)
                   THEN << "assemblyai.request" >> ELSE <<>>)
      [] stage = "Analyzing" /\ use_advanced_analysis ->
             << "analyze_with_ai" >>
               \o (IF ChatRequested(openai_key)
                   THEN << "chat.request" >> ELSE <<>>)
      [] OTHER -> <<>>

\* step 3 with a default ai_result that reports no success
EnterAnalyzing_failed(text, language) ==
    /\ ai_result' = [analysis |-> Object(<<>>), success |-> FALSE]
    /\ ai_args' = IF use_advanced_analysis
                  THEN << [transcription_text |-> text,
                           detected_language  |-> language] >>
                  ELSE ai_args

\* step 3 of main() up to the call of analyze_with_ai: the default ai_result
\* and the arguments of the call
EnterAnalyzing(text, language) ==
    /\ ai_result' = [analysis |-> Object(<<>>), success |-> TRUE]
    /\ ai_args' = IF use_advanced_analysis
                  THEN << [transcription_text |-> text,
                           detected_language  |-> language] >>
                  ELSE ai_args

\* the file_uploader widget
Upload(file) ==
    /\ pc = "Idle"
    /\ file # uploaded_file
    /\ uploaded_file' = file
    /\ UNCHANGED <<openai_key, assemblyai_key, use_speaker_diarization,
                   use_advanced_analysis, pc, fs, temp_path, whisper_result,
                   speaker_result, final_transcription, speaker_segments,
                   ai_result, ai_args, chat_response, events, notices,
                   session_state, previous_path, demo_vars>>
    /\ page' = Render(session_state)

\* the "Process Audio" button, up to the request of transcribe_with_whisper
Process(diarize, analyze) ==
    /\ pc = "Idle"
    /\ uploaded_file # NoFile
    /\ use_speaker_diarization' = diarize
    /\ use_advanced_analysis' = analyze
    /\ IF ~init_apis
       THEN /\ notices' = << "error: API Error" >>
            /\ UNCHANGED <<pc, fs, temp_path, events, previous_path>>
       ELSE \E path \in Paths \ fs :
            /\ fs' = fs \cup {path}
            /\ temp_path' = path
            /\ previous_path' = ""
            /\ pc' = "Transcribing"
            /\ notices' = <<>>
            /\ events' = << "tempfile.create" >> \o CallsOnEntry(pc')
    /\ UNCHANGED <<openai_key, assemblyai_key, uploaded_file, whisper_result,
                   speaker_result, final_transcription, speaker_segments,
                   ai_result, ai_args, chat_response, session_state,
                   demo_vars>>
    /\ page' = Blank

\* the failure branch without its os.unlink
TranscriptionFailed_leak(result) ==
    /\ pc' = "Failed"
    /\ notices' = Append(notices, "error: Transcription failed")
    /\ fs' = fs
    /\ events' = events \o Response("whisper")
    /\ UNCHANGED <<speaker_result, final_transcription, speaker_segments,
                   ai_result, ai_args>>

\* transcription failed: report, delete the temporary file, return
TranscriptionFailed(result) ==
    /\ pc' = "Failed"
    /\ notices' = Append(notices, "error: Transcription failed")
    /\ fs' = Unlink(fs, temp_path)
    /\ events' = events \o Response("whisper") \o << "os.unlink" >>
    /\ UNCHANGED <<speaker_result, final_transcription, speaker_segments,
                   ai_result, ai_args>>

\* a success branch that deletes the temporary file before diarization
TranscriptionSucceeded_unlinked(result) ==
    /\ pc' = StageAfterTranscribe(use_speaker_diarization)
    /\ notices' = Append(notices, "success: transcription completed")
    /\ speaker_result' = [speaker_segments |-> <<>>, success |-> TRUE,
                          total_speakers |-> 0]
    /\ final_transcription' = result.text
    /\ speaker_segments' = <<>>
    /\ fs' = Unlink(fs, temp_path)
    /\ events' = events \o Response("whisper") \o CallsOnEntry(pc')
    /\ IF pc' = "Analyzing"
       THEN EnterAnalyzing(final_transcription',
                           Get(result, "language", "unknown"))
       ELSE UNCHANGED <<ai_result, ai_args>>

\* transcription succeeded: step 2 defaults, then diarization or step 3
TranscriptionSucceeded(result) ==
    /\ pc' = StageAfterTranscribe(use_speaker_diarization)
    /\ notices' = Append(notices, "success: transcription completed")
    /\ speaker_result' = [speaker_segments |-> <<>>, success |-> TRUE,
                          total_speakers |-> 0]
    /\ final_transcription' = result.text
    /\ speaker_segments' = <<>>
    /\ fs' = fs
    /\ events' = events \o Response("whisper") \o CallsOnEntry(pc')
    /\ IF pc' = "Analyzing"
       THEN EnterAnalyzing(final_transcription',
                           Get(result, "language", "unknown"))
       ELSE UNCHANGED <<ai_result, ai_args>>

\* transcribe_with_whisper returns
TranscribeReturn(resp) ==
    /\ pc = "Transcribing"
    /\ LET result == transcribe_with_whisper(openai_key, temp_path \in fs, resp)
       IN  /\ whisper_result' = result
           /\ IF ~result.success
              THEN TranscriptionFailed(result)
              ELSE TranscriptionSucceeded(result)
    /\ UNCHANGED <<openai_key, assemblyai_key, uploaded_file,
                   use_speaker_diarization, use_advanced_analysis, temp_path,
                   chat_response, session_state, page, previous_path,
                   demo_vars>>

\* get_speaker_timestamps_only returns
DiarizeReturn(resp) ==
    /\ pc = "Diarizing"
    /\ LET result == get_speaker_timestamps_only(assemblyai_key,
                                                 temp_path \in fs, resp)
           combined == combine_transcription_with_speakers(whisper_result, result)
       IN  /\ speaker_result' = result
           /\ IF result.success
              THEN /\ final_transcription' = combined[1]
                   /\ speaker_segments' = combined[2]
                   /\ notices' = Append(notices, "success: speakers detected")
              ELSE /\ UNCHANGED <<final_transcription, speaker_segments>>
                   /\ notices' = Append(notices, "warning: Speaker timing failed")
           /\ pc' = StageAfterDiarize(result)
    /\ events' = events \o Response("assemblyai") \o CallsOnEntry(pc')
    /\ IF pc' = "Analyzing"
       THEN EnterAnalyzing(final_transcription',
                           Get(whisper_result, "language", "unknown"))
       ELSE UNCHANGED <<ai_result, ai_args>>
    /\ UNCHANGED <<openai_key, assemblyai_key, uploaded_file,
                   use_speaker_diarization, use_advanced_analysis, fs,
                   temp_path, whisper_result, chat_response, session_state,
                   page, previous_path, demo_vars>>

\* the language main() names in the success message of step 3
lang_display(detected_language) ==
    IF detected_language = "it" THEN "Italiano" ELSE "English"

\* step 3 of main() from the return of analyze_with_ai, or the whole of it
\* when the analysis is disabled
AnalyzeReturn(resp) ==
    /\ pc = "Analyzing"
    /\ IF use_advanced_analysis
       THEN LET result == analyze_with_ai(openai_key,
                                          ai_args[1].transcription_text,
                                          ai_args[1].detected_language, resp)
            IN  /\ ai_result' = result
                /\ chat_response' = IF InFlight("chat") THEN resp
                                    ELSE chat_response
                /\ notices' = Append(notices,
                       IF result.success
                       THEN "success: Strategic analysis completed in "
                                \o lang_display(ai_args[1].detected_language)
                       ELSE "warning: AI analysis failed")
       ELSE UNCHANGED <<ai_result, chat_response, notices>>
    /\ pc' = StageAfterAnalyze(ai_result')
    /\ events' = events \o Response("chat") \o CallsOnEntry(pc')
    /\ UNCHANGED <<openai_key, assemblyai_key, uploaded_file,
                   use_speaker_diarization, use_advanced_analysis, fs,
                   temp_path, whisper_result, speaker_result,
                   final_transcription, speaker_segments, ai_args,
                   session_state, page, previous_path, demo_vars>>

\* the record main() stores in st.session_state.new_analysis (processed_at,
\* the wall-clock time of the run, is left out)
new_analysis(file, text, whisper, segments, speaker, ai) ==
    [filename                 |-> file.name,
     transcription            |-> [text     |-> text,
                                   language |-> Get(whisper, "language", "unknown"),
                                   duration |-> Get(whisper, "duration", 0)],
     speakers                 |-> segments,
     speaker_count            |-> Get(speaker, "total_speakers", 0),
     ai_analysis              |-> Get(ai, "analysis", Object(<<>>)),
     file_size                |-> file.size,
     speaker_analysis_success |-> speaker.success,
     ai_analysis_success      |-> ai.success]

\* step 4 of main(): delete the temporary file, store the record
Assemble ==
    /\ pc = "Assembling"
    /\ notices' = Append(notices, "Processing complete")
    /\ fs' = Unlink(fs, temp_path)
    /\ session_state' = << new_analysis(uploaded_file, final_transcription,
                                        whisper_result, speaker_segments,
                                        speaker_result, ai_result) >>
    /\ events' = events \o << "os.unlink", "session_state.new_analysis" >>
    /\ pc' = "Done"
    /\ UNCHANGED <<openai_key, assemblyai_key, uploaded_file,
                   use_speaker_diarization, use_advanced_analysis, temp_path,
                   whisper_result, speaker_result, final_transcription,
                   speaker_segments, ai_result, ai_args, chat_response, page,
                   previous_path, demo_vars>>

\* a rerun that drops the stored record
Rerun_clearing ==
    /\ pc \in {"Done", "Failed"}
    /\ pc' = "Idle"
    /\ temp_path' = ""
    /\ whisper_result' = Unset
    /\ speaker_result' = Unset
    /\ final_transcription' = ""
    /\ speaker_segments' = <<>>
    /\ ai_result' = Unset
    /\ ai_args' = <<>>
    /\ chat_response' = Unset
    /\ events' = <<>>
    /\ notices' = <<>>
    /\ session_state' = <<>>
    /\ page' = Render(session_state')
    /\ previous_path' = temp_path
    /\ UNCHANGED <<openai_key, assemblyai_key, uploaded_file,
                   use_speaker_diarization, use_advanced_analysis, fs,
                   demo_vars>>

\* the script runs again (st.rerun() after a completed run, the next user
\* interaction after a failed one): the locals of the finished run are gone,
\* and the script ends by showing the stored record
Rerun ==
    /\ pc \in {"Done", "Failed"}
    /\ pc' = "Idle"
    /\ temp_path' = ""
    /\ whisper_result' = Unset
    /\ speaker_result' = Unset
    /\ final_transcription' = ""
    /\ speaker_segments' = <<>>
    /\ ai_result' = Unset
    /\ ai_args' = <<>>
    /\ chat_response' = Unset
    /\ events' = <<>>
    /\ notices' = <<>>
    /\ page' = Render(session_state)
    /\ previous_path' = temp_path
    /\ UNCHANGED <<openai_key, assemblyai_key, uploaded_file,
                   use_speaker_diarization, use_advanced_analysis, fs,
                   session_state, demo_vars>>

Init ==
    /\ openai_key \in BOOLEAN
    /\ assemblyai_key \in BOOLEAN
    /\ uploaded_file = NoFile
    /\ use_speaker_diarization = TRUE
    /\ use_advanced_analysis = TRUE
    /\ pc = "Idle"
    /\ fs = {}
    /\ temp_path = ""
    /\ whisper_result = Unset
    /\ speaker_result = Unset
    /\ final_transcription = ""
    /\ speaker_segments = <<>>
    /\ ai_result = Unset
    /\ ai_args = <<>>
    /\ chat_response = Unset
    /\ events = <<>>
    /\ notices = <<>>
    /\ session_state = <<>>
    /\ page = Render(session_state)
    /\ previous_path = ""
    /\ corpus = <<>>
    /\ demo_page = Blank

Next ==
    \/ \E file \in Files \cup {NoFile} : Upload(file)
    \/ \E diarize \in BOOLEAN, analyze \in BOOLEAN : Process(diarize, analyze)
    \/ \E resp \in WhisperResponses : TranscribeReturn(resp)
    \/ \E resp \in DiarizationResponses : DiarizeReturn(resp)
    \/ \E resp \in ChatResponses : AnalyzeReturn(resp)
    \/ Assemble
    \/ Rerun

Spec == Init /\ [][Next]_vars

----------------------------------------------------------------------------
(* demo_app.py: the dashboard over the pre-computed analysis files         *)

LegacyAnalysis ==
    [insight_strategici     |-> << [insight |-> "Espandere il canale partner",
                                    azione_suggerita |-> "Definire un pilota"] >>,
     opportunita_innovation |-> << [opportunita |-> "Onboarding automatico",
                                    impatto_potenziale |-> "alto"] >>,
     temi_ricorrenti        |-> << [tema |-> "Tempi di consegna",
                                    importanza |-> "alta"] >>]

EnglishAnalysis ==
    [strategic_insights       |-> LegacyAnalysis.insight_strategici,
     innovation_opportunities |-> LegacyAnalysis.opportunita_innovation,
     recurring_themes         |-> LegacyAnalysis.temi_ricorrenti]

\* the parsed content an analysis_*.json file can have: a meeting in the
\* legacy names, the same meeting in the English names, a meeting without
\* insights, and a record of the shape main.py stores (no meeting_info)
DemoRecords ==
    { [meeting_info |-> [title |-> "Board review"], ai_analysis |-> LegacyAnalysis],
      [meeting_info |-> [title |-> "Board review"], ai_analysis |-> EnglishAnalysis],
      [meeting_info |-> [title |-> "Stand-up"], ai_analysis |-> <<>>],
      [filename |-> "meeting.mp3", ai_analysis |-> LegacyAnalysis] }

Corpora == UNION { [1..n -> DemoRecords] : n \in 0..MaxDemoFiles }

\* sum(len(d['ai_analysis'].get(key, [])) for d in analysis_data)
RECURSIVE TotalItems(_, _)
TotalItems(data, key) ==
    IF data = <<>> THEN 0
    ELSE Len(Get(Head(data).ai_analysis, key, <<>>)) + TotalItems(Tail(data), key)

\* the lines one column of a meeting's expander shows
DemoItems(analysis, key, field) ==
    LET items == Get(analysis, key, <<>>)
    IN  [i \in DOMAIN items |-> Get(items[i], field, "N/A")]

\* the body of demo_app.py: the overview and the details of every meeting,
\* or the st.error of the except clause after a KeyError
demo_render(analysis_data) ==
    IF \E i \in DOMAIN analysis_data :
           \/ "ai_analysis" \notin DOMAIN analysis_data[i]
           \/ "meeting_info" \notin DOMAIN analysis_data[i]
           \/ "title" \notin DOMAIN analysis_data[i].meeting_info
    THEN [kind |-> "error", raised |-> "KeyError"]
    ELSE [kind                |-> "overview",
          meetings            |-> Len(analysis_data),
          total_insights      |-> TotalItems(analysis_data, "insight_strategici"),
          total_opportunities |-> TotalItems(analysis_data, "opportunita_innovation"),
          total_themes        |-> TotalItems(analysis_data, "temi_ricorrenti"),
          details |->
              [i \in DOMAIN analysis_data |->
                  [title         |-> analysis_data[i].meeting_info.title,
                   insights      |-> DemoItems(analysis_data[i].ai_analysis,
                                               "insight_strategici", "insight"),
                   opportunities |-> DemoItems(analysis_data[i].ai_analysis,
                                               "opportunita_innovation", "opportunita"),
                   themes        |-> DemoItems(analysis_data[i].ai_analysis,
                                               "temi_ricorrenti", "tema")]]]

\* one run of the demo script
DemoRun ==
    /\ demo_page' = demo_render(corpus)
    /\ UNCHANGED <<openai_key, assemblyai_key, uploaded_file,
                   use_speaker_diarization, use_advanced_analysis, pc, fs,
                   temp_path, whisper_result, speaker_result,
                   final_transcription, speaker_segments, ai_result, ai_args,
                   chat_response, events, notices, session_state, page,
                   previous_path, corpus>>

\* the demo dashboard started over some directory of analysis files
DemoInit ==
    /\ corpus \in Corpora
    /\ demo_page = Blank
    /\ openai_key = FALSE
    /\ assemblyai_key = FALSE
    /\ uploaded_file = NoFile
    /\ use_speaker_diarization = TRUE
    /\ use_advanced_analysis = TRUE
    /\ pc = "Idle"
    /\ fs = {}
    /\ temp_path = ""
    /\ whisper_result = Unset
    /\ speaker_result = Unset
    /\ final_transcription = ""
    /\ speaker_segments = <<>>
    /\ ai_result = Unset
    /\ ai_args = <<>>
    /\ chat_response = Unset
    /\ events = <<>>
    /\ notices = <<>>
    /\ session_state = <<>>
    /\ page = Blank
    /\ previous_path = ""

DemoNext == DemoRun

DemoSpec == DemoInit /\ [][DemoNext]_vars

TypeOK ==
    /\ pc \in {"Idle", "Transcribing", "Diarizing", "Analyzing", "Assembling",
               "Done", "Failed"}
    /\ fs \subseteq Paths
    /\ Len(session_state) <= 1

----------------------------------------------------------------------------
(* Properties                                                              *)

Called(event) == Count(events, event) > 0

\* the record in st.session_state.new_analysis
Record == session_state[1]

\* the run is past the return of transcribe_with_whisper
Transcribed == pc \in {"Diarizing", "Analyzing", "Assembling", "Done", "Failed"}

\* JSON truthiness of a stored ai_analysis
NonEmpty(analysis) ==
    IF analysis.type = "object" THEN DOMAIN analysis.members # {}
    ELSE analysis.value # 0

MalformedContents == {ContentProse, ContentCut}

\* the chat provider answered the current run with text that is not JSON
MalformedAnswer ==
    /\ chat_response # Unset
    /\ ~chat_response.raises
    /\ "content" \in DOMAIN chat_response
    /\ chat_response.content \in MalformedContents

\* C1: when transcribe_with_whisper returns success=False, neither
\* get_speaker_timestamps_only nor analyze_with_ai is called, the run is in
\* Failed, its temporary file is deleted and the step that ends it leaves
\* session state as it was.
C1_TranscriptionFailureAborts ==
    /\ [](Transcribed /\ ~whisper_result.success =>
            /\ pc = "Failed"
            /\ ~Called("get_speaker_timestamps_only")
            /\ ~Called("assemblyai.request")
            /\ ~Called("analyze_with_ai")
            /\ ~Called("chat.request")
            /\ ~Called("session_state.new_analysis")
            /\ temp_path \notin fs)
    /\ [][pc' = "Failed" => session_state' = session_state]_vars

\* a failed transcription with both toggles on and an earlier record stored
C1_Witness ==
    /\ pc = "Failed"
    /\ ~whisper_result.success
    /\ use_speaker_diarization /\ use_advanced_analysis
    /\ session_state # <<>>

\* C2: once a run that created the temporary file has ended (Done or Failed,
\* whatever the stages reported), no temporary file exists.
C2_TempFileRemoved ==
    pc \in {"Done", "Failed", "Idle"} => fs = {} /\ temp_path \notin fs

\* a run that reached Done although diarization and analysis reported errors
C2_Witness ==
    /\ pc = "Done"
    /\ Called("tempfile.create")
    /\ ~speaker_result.success /\ ~ai_result.success
    /\ temp_path \notin fs

\* C3: a run with diarization disabled that reaches Done stores an empty
\* speakers sequence and speaker_count 0, and never called
\* get_speaker_timestamps_only nor the diarization provider.
C3_DiarizationDisabled ==
    pc = "Done" /\ ~use_speaker_diarization =>
        /\ Record.speakers = <<>>
        /\ Record.speaker_count = 0
        /\ ~Called("get_speaker_timestamps_only")
        /\ ~Called("assemblyai.request")

\* a completed run without diarization although the diarization key is there
C3_Witness ==
    /\ pc = "Done"
    /\ ~use_speaker_diarization
    /\ assemblyai_key
    /\ Record.speakers = <<>>

\* C4: when the content of the chat response is text that is not JSON,
\* analyze_with_ai returns (it does not raise) success with the canned
\* fallback of the detected language, which has a non-empty sequence for each
\* of the five mandatory categories and is neither the raw content nor a
\* partly parsed structure.
C4_FallbackOnMalformedJson ==
    pc \in {"Assembling", "Done"} /\ MalformedAnswer =>
        /\ DOMAIN ai_result = {"success", "analysis"}
        /\ ai_result.success
        /\ ai_result.analysis \in { fallback_analysis("it"), fallback_analysis("en") }
        /\ ai_result.analysis.type = "object"
        /\ MandatoryCategories \subseteq DOMAIN ai_result.analysis.members
        /\ \A c \in MandatoryCategories : ai_result.analysis.members[c] # <<>>

\* analysis returned after the provider answered with a truncated JSON text
C4_Witness ==
    /\ pc = "Assembling"
    /\ MalformedAnswer
    /\ chat_response.content = ContentCut
    /\ ai_result.success

\* the chat provider answered the current run with text
AnsweredWithText ==
    /\ chat_response # Unset
    /\ ~chat_response.raises
    /\ "content" \in DOMAIN chat_response

\* the chat provider answered the current run with well-formed JSON
WellFormedAnswer ==
    AnsweredWithText /\ chat_response.content \notin MalformedContents

\* C5 as stated: in the stored record ai_analysis_success is true if and only
\* if ai_analysis is non-empty and was parsed from a well-formed JSON payload.
C5_Original ==
    pc = "Done" =>
        (Record.ai_analysis_success <=>
            /\ NonEmpty(Record.ai_analysis)
            /\ use_advanced_analysis /\ WellFormedAnswer
            /\ Record.ai_analysis = json_loads(chat_response.content))

\* C5 (amended): in the stored record ai_analysis_success is false exactly
\* when analysis was enabled and the provider gave no text content, and
\* ai_analysis is then empty; with the flag true, ai_analysis is the parsed
\* payload after a well-formed answer (possibly empty), the canned fallback
\* after a malformed one, and empty when analysis was disabled.
C5_SuccessFlag ==
    pc = "Done" =>
        /\ Record.ai_analysis_success <=>
               (~use_advanced_analysis \/ AnsweredWithText)
        /\ ~Record.ai_analysis_success => Record.ai_analysis = Object(<<>>)
        /\ ~use_advanced_analysis => Record.ai_analysis = Object(<<>>)
        /\ use_advanced_analysis /\ WellFormedAnswer =>
               Record.ai_analysis = json_loads(chat_response.content)
        /\ use_advanced_analysis /\ MalformedAnswer =>
               /\ Record.ai_analysis =
                      fallback_analysis(Record.transcription.language)
               /\ NonEmpty(Record.ai_analysis)

\* a record whose flag is true although its analysis is the canned fallback
C5_Witness ==
    /\ pc = "Done"
    /\ use_advanced_analysis /\ MalformedAnswer
    /\ Record.ai_analysis_success
    /\ Record.ai_analysis = fallback_analysis("en")

\* diarization was enabled and get_speaker_timestamps_only returned failure
DiarizationFailed ==
    /\ use_speaker_diarization
    /\ Called("get_speaker_timestamps_only")
    /\ pc # "Diarizing"
    /\ ~speaker_result.success

\* C6: when diarization is enabled and fails the run is not aborted: it goes
\* on through analysis (called, if enabled, with the stage-1 transcript) and
\* assembly, each of which can take its step, and the record stored at Done
\* has no speakers, speaker_count 0 and speaker_analysis_success false.
C6_DiarizationFailureNotFatal ==
    DiarizationFailed =>
        /\ pc \in {"Analyzing", "Assembling", "Done"}
        /\ final_transcription = whisper_result.text
        /\ speaker_segments = <<>>
        /\ use_advanced_analysis =>
               /\ Called("analyze_with_ai")
               /\ ai_args[1].transcription_text = whisper_result.text
        /\ pc = "Analyzing" => ENABLED (\E resp \in ChatResponses : AnalyzeReturn(resp))
        /\ pc = "Assembling" => ENABLED Assemble
        /\ pc = "Done" =>
               /\ Record.speakers = <<>>
               /\ Record.speaker_count = 0
               /\ ~Record.speaker_analysis_success

\* a completed run whose diarization request failed and whose analysis ran
C6_Witness ==
    /\ pc = "Done"
    /\ DiarizationFailed
    /\ Called("assemblyai.request")
    /\ use_advanced_analysis /\ ai_result.success
    /\ ~Record.speaker_analysis_success

\* the chat call of the current run raised (transport or auth error)
TransportFailure == chat_response # Unset /\ chat_response.raises

\* C7: when the chat call fails with a transport or auth error,
\* analyze_with_ai returns success=False without analysis, the run goes on
\* to Assembling and Done, and the stored record has an empty ai_analysis,
\* ai_analysis_success false and the transcription and speaker fields the
\* first two stages produced.
C7_AnalysisFailureNotFatal ==
    TransportFailure =>
        /\ pc \in {"Assembling", "Done"}
        /\ ~ai_result.success
        /\ "analysis" \notin DOMAIN ai_result
        /\ pc = "Assembling" => ENABLED Assemble
        /\ pc = "Done" =>
               /\ Record.ai_analysis = Object(<<>>)
               /\ ~Record.ai_analysis_success
               /\ Record.transcription = [text     |-> whisper_result.text,
                                          language |-> whisper_result.language,
                                          duration |-> whisper_result.duration]
               /\ Record.speakers =
                      (IF speaker_result.success
                       THEN speaker_result.speaker_segments ELSE <<>>)
               /\ Record.speaker_count =
                      (IF speaker_result.success
                       THEN speaker_result.total_speakers ELSE 0)
               /\ Record.speaker_analysis_success = speaker_result.success

\* a completed run with speakers detected whose chat call raised
C7_Witness ==
    /\ pc = "Done"
    /\ TransportFailure
    /\ Record.speaker_count = 2
    /\ ~Record.ai_analysis_success

\* position of the first occurrence of an event of the current run
FirstIndex(event) ==
    CHOOSE i \in DOMAIN events :
        events[i] = event /\ \A j \in 1..(i - 1) : events[j] # event

\* event a happened before event b, if b happened at all
Before(a, b) == Called(b) => Called(a) /\ FirstIndex(a) < FirstIndex(b)

StageTransitions ==
    { <<"Idle", "Transcribing">>, <<"Transcribing", "Failed">>,
      <<"Transcribing", "Diarizing">>, <<"Transcribing", "Analyzing">>,
      <<"Diarizing", "Analyzing">>, <<"Analyzing", "Assembling">>,
      <<"Assembling", "Done">>, <<"Done", "Idle">>, <<"Failed", "Idle">> }

\* C8: a run moves Idle -> Transcribing -> (Diarizing, only when enabled) ->
\* Analyzing -> Assembling -> Done, or Transcribing -> Failed, and by no
\* other step; the transcription call has returned before
\* get_speaker_timestamps_only is called, which has returned before
\* analyze_with_ai is called; at most one provider request is in flight, and
\* only in the stage of that provider; the record is stored only when no
\* request is in flight and every enabled stage has been called.
C8_StageOrder ==
    /\ [][ /\ pc' # pc => <<pc, pc'>> \in StageTransitions
           /\ pc = "Transcribing" /\ pc' = "Diarizing" => use_speaker_diarization
           /\ pc = "Transcribing" /\ pc' = "Analyzing" => ~use_speaker_diarization
         ]_vars
    /\ [](/\ Cardinality({ p \in Providers : InFlight(p) }) <= 1
          /\ InFlight("whisper") => pc = "Transcribing"
          /\ InFlight("assemblyai") => pc = "Diarizing"
          /\ InFlight("chat") => pc = "Analyzing"
          /\ Before("whisper.response", "get_speaker_timestamps_only")
          /\ Before("whisper.response", "analyze_with_ai")
          /\ Called("get_speaker_timestamps_only") /\ Called("analyze_with_ai") =>
                 /\ FirstIndex("get_speaker_timestamps_only")
                        < FirstIndex("analyze_with_ai")
                 /\ Called("assemblyai.request") =>
                        Before("assemblyai.response", "analyze_with_ai")
          /\ Called("session_state.new_analysis") =>
                 /\ \A p \in Providers : ~InFlight(p)
                 /\ use_speaker_diarization => Called("get_speaker_timestamps_only")
                 /\ use_advanced_analysis => Called("analyze_with_ai")
                 /\ Called("chat.request") =>
                        Before("chat.response", "session_state.new_analysis"))

\* a completed run in which all three providers were called, one after another
C8_Witness ==
    /\ pc = "Done"
    /\ Called("whisper.response")
    /\ Called("assemblyai.response")
    /\ Called("chat.response")
    /\ Called("session_state.new_analysis")

\* C9: within one run transcribe_with_whisper, get_speaker_timestamps_only
\* and analyze_with_ai are each called at most once and each provider gets
\* at most one request, whatever the stages answered.
C9_NoRetry ==
    \A e \in { "transcribe_with_whisper", "whisper.request",
               "get_speaker_timestamps_only", "assemblyai.request",
               "analyze_with_ai", "chat.request" } : Count(events, e) <= 1

\* a completed run after a failed diarization and a failed chat call
C9_Witness ==
    /\ pc = "Done"
    /\ Count(events, "whisper.request") = 1
    /\ Count(events, "assemblyai.request") = 1 /\ ~speaker_result.success
    /\ Count(events, "chat.request") = 1 /\ ~ai_result.success

\* C10: the text analyze_with_ai is called with and the text stored as
\* transcription.text are the text of the stage-1 result, whatever the
\* diarization stage did (disabled, failed, no segments, segments).
C10_AnalysisUsesTranscript ==
    /\ ai_args # <<>> => ai_args[1].transcription_text = whisper_result.text
    /\ pc \in {"Diarizing", "Analyzing", "Assembling", "Done"} =>
           final_transcription = whisper_result.text
    /\ pc = "Done" => Record.transcription.text = whisper_result.text

\* a completed run in which diarization returned segments and analysis ran
C10_Witness ==
    /\ pc = "Done"
    /\ ai_args # <<>>
    /\ speaker_result.success
    /\ Len(Record.speakers) = 2
    /\ Record.transcription.text = TextIT

\* C11: after a parse failure the fallback analyze_with_ai substitutes is the
\* Italian one exactly when it selected the Italian prompt pair for the call,
\* and the English one exactly when it selected the English pair.
C11_FallbackMatchesPrompt ==
    pc \in {"Assembling", "Done"} /\ use_advanced_analysis /\ MalformedAnswer =>
        LET locale == prompt_locale(ai_args[1].transcription_text,
                                    ai_args[1].detected_language)
        IN  /\ ai_result.analysis = fallback_analysis("it") <=> locale = "it"
            /\ ai_result.analysis = fallback_analysis("en") <=> locale = "en"

\* C12: in every record of a run with analysis enabled in which
\* analyze_with_ai reported success, ai_analysis is a mapping that has at
\* least the five mandatory category keys.
C12_AnalysisShape ==
    pc = "Done" /\ use_advanced_analysis /\ Record.ai_analysis_success =>
        /\ Record.ai_analysis.type = "object"
        /\ MandatoryCategories \subseteq DOMAIN Record.ai_analysis.members

\* C13: when the OpenAI key is absent the process action starts no run: the
\* handler stays before Transcribing, no stage wrapper or provider is
\* called, no temporary file is created and session state stays as it was.
C13_NoKeyNoRun ==
    ~openai_key =>
        /\ pc = "Idle"
        /\ events = <<>>
        /\ fs = {}
        /\ temp_path = ""
        /\ session_state = <<>>

\* the process button was pressed without the OpenAI key
C13_Witness ==
    /\ ~openai_key
    /\ uploaded_file # NoFile
    /\ notices = << "error: API Error" >>
    /\ page = Blank

\* C14: when only the AssemblyAI key is absent the diarization provider is
\* never requested, get_speaker_timestamps_only returns success=False, the
\* run goes on through analysis (requested if enabled) and assembly, each of
\* which can take its step, and at Done a record is stored.
C14_OnlyDiarizationDisabled ==
    openai_key /\ ~assemblyai_key =>
        /\ ~Called("assemblyai.request")
        /\ Called("get_speaker_timestamps_only") /\ pc # "Diarizing" =>
               /\ ~speaker_result.success
               /\ pc \in {"Analyzing", "Assembling", "Done"}
               /\ Called("whisper.request")
               /\ use_advanced_analysis =>
                      Called("analyze_with_ai") /\ Called("chat.request")
               /\ pc = "Analyzing" =>
                      ENABLED (\E resp \in ChatResponses : AnalyzeReturn(resp))
               /\ pc = "Assembling" => ENABLED Assemble
               /\ pc = "Done" =>
                      /\ session_state # <<>>
                      /\ Record.transcription.text = whisper_result.text
                      /\ ~Record.speaker_analysis_success

\* a completed run with diarization and analysis enabled and no AssemblyAI key
C14_Witness ==
    /\ openai_key /\ ~assemblyai_key
    /\ pc = "Done"
    /\ use_speaker_diarization /\ use_advanced_analysis
    /\ Called("get_speaker_timestamps_only")
    /\ Called("chat.response")
    /\ session_state # <<>>

\* a time in seconds is the given number of milliseconds divided by 1000
IsSecondsOf(t, ms) ==
    /\ t.thousandths \in 0..999
    /\ t.s * 1000 + t.thousandths = ms

\* C15: a successful get_speaker_timestamps_only returns one segment per
\* utterance of the provider, in the provider's order, with start and end
\* equal to the utterance's milliseconds divided by 1000; start=1500,
\* end=4200 gives start=1.5, end=4.2.
C15_MillisecondsToSeconds ==
    [][\A resp \in DiarizationResponses :
          DiarizeReturn(resp) /\ speaker_result'.success =>
              LET utterances == Get(resp, "utterances", <<>>)
                  segs == speaker_result'.speaker_segments
              IN  /\ Len(segs) = Len(utterances)
                  /\ \A i \in DOMAIN utterances :
                         /\ segs[i].speaker = utterances[i].speaker
                         /\ IsSecondsOf(segs[i].start, utterances[i].start)
                         /\ IsSecondsOf(segs[i].end, utterances[i].end)
                         /\ utterances[i].start = 1500 /\ utterances[i].end = 4200 =>
                                /\ segs[i].start = [s |-> 1, thousandths |-> 500]
                                /\ segs[i].end = [s |-> 4, thousandths |-> 200]]_vars

\* diarization returned two utterances, the second from 1500 ms to 4200 ms
C15_Witness ==
    /\ pc = "Analyzing"
    /\ Called("assemblyai.response")
    /\ speaker_result.success
    /\ Len(speaker_result.speaker_segments) = 2
    /\ speaker_result.speaker_segments[1].speaker = "A"
    /\ speaker_result.speaker_segments[2] =
           [speaker |-> "B", start |-> [s |-> 1, thousandths |-> 500],
            end |-> [s |-> 4, thousandths |-> 200], confidence |-> 90]

\* the distinct speaker labels of a sequence of segments
Labels(segments) == { segments[i].speaker : i \in DOMAIN segments }

\* C16: in every stored record speaker_count is the number of distinct
\* speaker labels of the record's speakers, whatever the diarization outcome.
C16_SpeakerCount ==
    session_state # <<>> =>
        Record.speaker_count = Cardinality(Labels(Record.speakers))

\* a stored record with two segments of one speaker
C16_Witness ==
    /\ session_state # <<>>
    /\ Len(Record.speakers) = 2
    /\ Labels(Record.speakers) = {"B"}
    /\ Record.speaker_count = 1
    /\ Record.speaker_analysis_success

\* C17: the stored record changes only in the step that completes a run,
\* where it is replaced whole by the record of that run; a failed run, a
\* blocked process action and the display of results leave it as it was.
C17_RecordReplacedOnlyAtDone ==
    [][/\ session_state' # session_state =>
              /\ pc = "Assembling" /\ pc' = "Done"
              /\ Len(session_state') = 1
              /\ session_state'[1].filename = uploaded_file.name
              /\ session_state'[1].file_size = uploaded_file.size
              /\ session_state'[1].transcription.text = final_transcription
              /\ session_state'[1].transcription.language =
                     Get(whisper_result, "language", "unknown")
              /\ session_state'[1].speakers = speaker_segments
              /\ session_state'[1].speaker_analysis_success = speaker_result.success
              /\ session_state'[1].ai_analysis =
                     Get(ai_result, "analysis", Object(<<>>))
              /\ session_state'[1].ai_analysis_success = ai_result.success
       /\ pc' = "Failed" \/ pc = "Failed" \/ pc' = "Idle" =>
              session_state' = session_state]_vars

\* a failed run of another file, with the record of an earlier run still stored
C17_Witness ==
    /\ pc = "Failed"
    /\ Called("os.unlink")
    /\ session_state # <<>>
    /\ Record.filename # uploaded_file.name

\* the items a record carries for a category under its legacy or its
\* English name
ItemsOf(analysis, legacy, english) ==
    Get(analysis, legacy, Get(analysis, english, <<>>))

\* C18: a corpus of records that have the demo layout (meeting_info with a
\* title, ai_analysis), with the categories under the legacy or under the
\* English names, is presented by the demo dashboard without error and with
\* every record's insights, opportunities and themes shown.
C18_BothSchemaVariantsShown ==
    /\ demo_page # Blank
    /\ \A i \in DOMAIN corpus : "meeting_info" \in DOMAIN corpus[i]
    =>
    /\ demo_page.kind = "overview"
    /\ \A i \in DOMAIN corpus :
           /\ Len(demo_page.details[i].insights) =
                  Len(ItemsOf(corpus[i].ai_analysis,
                              "insight_strategici", "strategic_insights"))
           /\ Len(demo_page.details[i].opportunities) =
                  Len(ItemsOf(corpus[i].ai_analysis,
                              "opportunita_innovation", "innovation_opportunities"))
           /\ Len(demo_page.details[i].themes) =
                  Len(ItemsOf(corpus[i].ai_analysis,
                              "temi_ricorrenti", "recurring_themes"))

\* the handler is inside a run, between the creation of the temporary file
\* and the end of the run
Running == pc \in {"Transcribing", "Diarizing", "Analyzing", "Assembling"}

\* the temporary file within one run: created before the transcription call,
\* present while a stage reads it and until every stage has returned, read by
\* one stage at a time, deleted after the responses of the stages that read it
TempFileWithinRun ==
    /\ Before("tempfile.create", "transcribe_with_whisper")
    /\ InFlight("whisper") \/ InFlight("assemblyai") => temp_path \in fs
    /\ Running => temp_path \in fs
    /\ ~(InFlight("whisper") /\ InFlight("assemblyai"))
    /\ Called("os.unlink") =>
           /\ pc \in {"Done", "Failed"}
           /\ Count(events, "os.unlink") = 1
           /\ Before("whisper.response", "os.unlink")
           /\ Called("assemblyai.request") =>
                  /\ Called("assemblyai.response")
                  /\ FirstIndex("assemblyai.response") < FirstIndex("os.unlink")
           /\ use_speaker_diarization /\ pc = "Done" =>
                  /\ Called("get_speaker_timestamps_only")
                  /\ FirstIndex("get_speaker_timestamps_only") < FirstIndex("os.unlink")

\* the files change only when a run creates its file and when it deletes it
TempFileSteps ==
    /\ pc = "Idle" /\ pc' = "Transcribing" =>
           /\ temp_path' \notin fs
           /\ fs' = fs \cup {temp_path'}
    /\ fs' # fs /\ pc # "Idle" =>
           /\ pc' \in {"Done", "Failed"}
           /\ fs' = fs \ {temp_path}

\* C19 as stated: the temporary file is scoped to one run, and a later run
\* never gets the path an earlier run had.
C19_Original ==
    /\ []TempFileWithinRun
    /\ [][/\ TempFileSteps
          /\ pc = "Idle" /\ pc' = "Transcribing" /\ previous_path # "" =>
                 temp_path' # previous_path]_vars

\* C19: the temporary file is scoped to one run: it is created before the
\* transcription call, exists during every stage call that reads it, is
\* deleted only after the last such stage has returned, is never read by two
\* stages at once, and every run creates its file anew at a path that holds
\* no file at that moment (the path name of an earlier, deleted file may
\* come back).
C19_TempFileScoped ==
    /\ []TempFileWithinRun
    /\ [][TempFileSteps]_vars

\* a later run, after a completed one, with the diarization request in
\* flight on its temporary file
C19_Witness ==
    /\ pc = "Diarizing"
    /\ InFlight("assemblyai")
    /\ temp_path \in fs
    /\ session_state # <<>>

\* C20: a run with the analysis disabled that reaches Done has not called
\* analyze_with_ai nor the chat provider, and its record has an empty
\* ai_analysis with ai_analysis_success true.
C20_AnalysisDisabled ==
    pc = "Done" /\ ~use_advanced_analysis =>
        /\ ~Called("analyze_with_ai")
        /\ ~Called("chat.request")
        /\ Record.ai_analysis = Object(<<>>)
        /\ Record.ai_analysis_success

\* a completed run with the analysis disabled and diarization done
C20_Witness ==
    /\ pc = "Done"
    /\ ~use_advanced_analysis
    /\ Called("assemblyai.response")
    /\ Record.ai_analysis = Object(<<>>)
    /\ Record.ai_analysis_success

\* the message is among the notices of the current run
Announced(message) == \E i \in DOMAIN notices : notices[i] = message

\* C21: the language announced for an analysis agrees with the prompt pair
\* analyze_with_ai selected: the success message of step 3 and the title of
\* the results page say Italiano exactly when the Italian prompts were used
\* for that transcript and detected language, and English otherwise.
C21_AnnouncedLanguageMatchesPrompt ==
    /\ pc \in {"Assembling", "Done"} /\ use_advanced_analysis /\ ai_result.success =>
           LET locale == prompt_locale(ai_args[1].transcription_text,
                                       ai_args[1].detected_language)
           IN  /\ Announced("success: Strategic analysis completed in Italiano")
                      <=> locale = "it"
               /\ Announced("success: Strategic analysis completed in English")
                      <=> locale = "en"
    /\ page.kind = "results" /\ "title_suffix" \in DOMAIN page =>
           LET locale == prompt_locale(page.transcription, page.language)
           IN  /\ page.title_suffix = "in Italiano" <=> locale = "it"
               /\ page.title_suffix = "in English" <=> locale = "en"

====
